---- MODULE Spec2Model ----
(***************************************************************************)
(* A model of examples/animation/animated_mesh_fbx.rs: the deferred        *)
(* asset-to-entity binding protocol (setup_mesh_and_animation registers an *)
(* AnimationToPlay descriptor and an observer on a scene root;             *)
(* play_animation_when_ready binds every AnimationPlayer found among the   *)
(* root's descendants once SceneInstanceReady is triggered) and the        *)
(* periodic status reporter debug_animation_status.                        *)
(*                                                                         *)
(* An optional component is a sequence of length 0 (absent) or 1 (present).*)
(* Time is in integer milliseconds.                                        *)
(***************************************************************************)
EXTENDS Integers, Sequences, FiniteSets

\* ------------------------------------------------------------------ bounds

\* Entity ids available to the world of Spec.
MaxEnt == 5

\* How many times the load-and-registration step may run in Spec.
MaxRoots == 2

\* The largest number of entities one scene instance spawns.
MaxScene == 2

\* Entity ids of the worlds the handler is applied to in SpecHandler.
MaxHandlerEnt == 4

\* How many times SceneInstanceReady may be triggered for one root in
\* SpecHandler.
MaxFires == 2

\* The frames of SpecTime stop once elapsed time passes this many ms.
MaxElapsed == 2400

\* ------------------------------------------------------- program constants

\* FbxAssetLabel::Animation(0)
ANIMATION_LABEL == 0

\* FbxAssetLabel::Scene(0)
SCENE_LABEL == 0

\* time.elapsed_secs() > 1.0, in ms
WARMUP_MS == 1000

\* time.delta_secs() < 0.1, in ms
DELTA_THRESHOLD_MS == 100

\* time.elapsed_secs() as u32 % 1
SECOND_MODULUS == 1

\* One second in ms (elapsed_secs() is elapsed / 1000).
MS_PER_SEC == 1000

\* ------------------------------------------------------------------- state

VARIABLES
    entities,     \* the entities alive in the world
    parent,       \* ChildOf: entity -> <<>> or <<parent>>
    animToPlay,   \* AnimationToPlay component: entity -> <<>> or <<descriptor>>
    sceneRoot,    \* SceneRoot component: entity -> <<>> or <<scene label>>
    observers,    \* entities watched by a play_animation_when_ready observer
    players,      \* AnimationPlayer component: entity -> <<>> or <<active animations>>
    graphHandle,  \* AnimationGraphHandle component: entity -> <<>> or <<handle>>
    graphs,       \* Assets<AnimationGraph>: handle h is graphs[h]
    sceneState,   \* scene instance of a root: none, loading, spawning, ready, failed
    remaining,    \* entities of the scene instance still to be spawned
    fired,        \* how many times SceneInstanceReady was triggered on the entity
    runs,         \* how many times play_animation_when_ready ran for the entity
    queue,        \* Commands queued and not yet applied
    err,          \* an error was raised
    elapsed,      \* Time::elapsed, ms
    delta,        \* Time::delta, ms
    logged,       \* debug_animation_status logged on the last frame
    prevLog       \* elapsed time of the log emission before that one, or -1

worldVars == <<entities, parent, animToPlay, sceneRoot, observers, players,
               graphHandle, graphs, sceneState, remaining, fired, runs, queue, err>>

timeVars == <<elapsed, delta, logged, prevLog>>

vars == <<entities, parent, animToPlay, sceneRoot, observers, players,
          graphHandle, graphs, sceneState, remaining, fired, runs, queue, err,
          elapsed, delta, logged, prevLog>>

Ent == 1..(IF MaxEnt > MaxHandlerEnt THEN MaxEnt ELSE MaxHandlerEnt)

\* AnimationNodeIndex values a player can have active.
NodeIdx == {0, 1}

Range(s) == {s[i] : i \in 1..Len(s)}

\* ------------------------------------------------------ engine primitives

\* AnimationGraph::from_clip(clip): a graph of one node wrapping the clip,
\* and the index of that node.
from_clip(clip) == <<[nodes |-> <<[clip |-> clip]>>], 1>>

\* AnimationPlayer::default(): nothing is active.
DefaultPlayer == [i \in NodeIdx |-> "Inactive"]

\* AnimationPlayer::play(index): the entry of index, or a default one
\* (RepeatAnimation::Never).
Play(active, index) ==
    IF active[index] = "Inactive" THEN [active EXCEPT ![index] = "Never"] ELSE active

\* ActiveAnimation::repeat(): RepeatAnimation::Forever.
Repeat(active, index) == [active EXCEPT ![index] = "Forever"]

\* The set s as a sequence, in increasing order.
RECURSIVE SortedSeq(_)
SortedSeq(s) ==
    IF s = {} THEN <<>>
    ELSE LET m == CHOOSE x \in s : \A y \in s : x <= y
         IN <<m>> \o SortedSeq(s \ {m})

\* The Children component of p, in order of spawning.
Children(p) == SortedSeq({c \in entities : parent[c] = <<p>>})

\* Query<&Children>::iter_descendants: breadth-first from the children of e.
RECURSIVE Bfs(_)
Bfs(frontier) ==
    IF frontier = <<>> THEN <<>>
    ELSE <<Head(frontier)>> \o Bfs(Tail(frontier) \o Children(Head(frontier)))

iter_descendants(e) == Bfs(Children(e))

\* e is a strict ancestor of d along ChildOf.
RECURSIVE IsAncestor(_, _)
IsAncestor(e, d) ==
    /\ parent[d] # <<>>
    /\ (parent[d][1] = e \/ IsAncestor(e, parent[d][1]))

\* The descendant subtree of e: all entities transitively parented under e.
Descendants(e) == {d \in entities : IsAncestor(e, d)}

\* e is a scene root of the world.
IsRoot(e) == e \in entities /\ sceneRoot[e] # <<>>

\* The scene roots of the world.
Roots == {e \in entities : sceneRoot[e] # <<>>}

\* The id Commands::spawn reserves: ids are handed out in increasing order.
NewEntity ==
    Cardinality(entities)
    + Cardinality({i \in 1..Len(queue) : queue[i].op = "spawn"}) + 1

\* --------------------------------------------------------------- commands

SpawnCmd(e, bundle) ==
    [op |-> "spawn", entity |-> e, descriptor |-> bundle.descriptor,
     scene |-> bundle.scene, handle |-> <<>>]

ObserveCmd(e) ==
    [op |-> "observe", entity |-> e, descriptor |-> <<>>, scene |-> <<>>,
     handle |-> <<>>]

InsertCmd(e, h) ==
    [op |-> "insert", entity |-> e, descriptor |-> <<>>, scene |-> <<>>,
     handle |-> <<h>>]

\* One command applied to the world w.
ApplyCommand(w, cmd) ==
    IF cmd.op = "spawn" THEN
        [w EXCEPT !.entities = @ \cup {cmd.entity},
                  !.animToPlay[cmd.entity] = cmd.descriptor,
                  !.sceneRoot[cmd.entity] = cmd.scene,
                  !.sceneState[cmd.entity] =
                      IF cmd.scene # <<>> THEN "loading" ELSE "none"]
    ELSE IF cmd.entity \notin w.entities THEN
        [w EXCEPT !.err = TRUE]
    ELSE IF cmd.op = "observe" THEN
        [w EXCEPT !.observers = @ \cup {cmd.entity}]
    ELSE
        [w EXCEPT !.graphHandle[cmd.entity] = cmd.handle]

RECURSIVE ApplyAll(_, _)
ApplyAll(w, q) ==
    IF q = <<>> THEN w ELSE ApplyAll(ApplyCommand(w, Head(q)), Tail(q))

\* The sync point after a system or an observer: every queued command is
\* applied, in order.
Flush ==
    /\ queue # <<>>
    /\ LET w == ApplyAll([entities |-> entities, animToPlay |-> animToPlay,
                          sceneRoot |-> sceneRoot, sceneState |-> sceneState,
                          observers |-> observers, graphHandle |-> graphHandle,
                          err |-> err], queue)
       IN /\ entities' = w.entities
          /\ animToPlay' = w.animToPlay
          /\ sceneRoot' = w.sceneRoot
          /\ sceneState' = w.sceneState
          /\ observers' = w.observers
          /\ graphHandle' = w.graphHandle
          /\ err' = w.err
    /\ queue' = <<>>
    /\ UNCHANGED <<parent, players, graphs, remaining, fired, runs>>
    /\ UNCHANGED timeVars

\* ------------------------------------------------ setup_mesh_and_animation

\* A descriptor whose index is not the one from_clip returned.
MakeAnimationToPlay_WrongIndex(graph_handle, index) ==
    [graph_handle |-> graph_handle, index |-> index - 1]

\* AnimationToPlay { graph_handle, index }
MakeAnimationToPlay(graph_handle, index) ==
    [graph_handle |-> graph_handle, index |-> index]

\* A bundle that leaves the descriptor out.
SpawnBundle_NoDescriptor(animation_to_play, mesh_scene) ==
    [descriptor |-> <<>>, scene |-> <<mesh_scene>>]

\* The bundle (animation_to_play, mesh_scene) of commands.spawn.
SpawnBundle(animation_to_play, mesh_scene) ==
    [descriptor |-> <<animation_to_play>>, scene |-> <<mesh_scene>>]

\* The root is spawned with no observer.
ObserveCommands_None(e) == <<>>

\* .observe(play_animation_when_ready) on the spawned entity.
ObserveCommands(e) == <<ObserveCmd(e)>>

setup_mesh_and_animation ==
    /\ queue = <<>>
    /\ Cardinality(Roots) < MaxRoots
    /\ NewEntity <= MaxEnt
    /\ LET gi == from_clip(ANIMATION_LABEL)
           graph_handle == Len(graphs) + 1
           animation_to_play == MakeAnimationToPlay(graph_handle, gi[2])
           e == NewEntity
       IN /\ graphs' = Append(graphs, gi[1])
          /\ queue' = queue \o <<SpawnCmd(e, SpawnBundle(animation_to_play, SCENE_LABEL))>>
                            \o ObserveCommands(e)
    /\ UNCHANGED <<entities, parent, animToPlay, sceneRoot, observers, players,
                   graphHandle, sceneState, remaining, fired, runs, err>>
    /\ UNCHANGED timeVars

\* ----------------------------------------------- play_animation_when_ready

\* The first AnimationToPlay of the world, whatever entity carries it.
DescriptorLookup_Single(e) ==
    LET have == {x \in entities : animToPlay[x] # <<>>}
    IN IF have = {} THEN <<>>
       ELSE animToPlay[CHOOSE x \in have : \A y \in have : x <= y]

\* animations_to_play.get(event.entity())
DescriptorLookup(e) == IF e \in entities THEN animToPlay[e] ELSE <<>>

HasPlayer(c) == players[c] # <<>>

\* Only the first player found.
PlayTargets_FirstOnly(e) ==
    LET t == SelectSeq(iter_descendants(e), HasPlayer)
    IN IF t = <<>> THEN <<>> ELSE <<Head(t)>>

\* Every player of the world.
PlayTargets_AllPlayers(e) ==
    SortedSeq({c \in entities : HasPlayer(c)})

\* The descendants for which players.get_mut(child) is Ok, in traversal order.
PlayTargets(e) == SelectSeq(iter_descendants(e), HasPlayer)

\* The insert is issued for every descendant.
InsertTargets_AllDescendants(e) == iter_descendants(e)

\* The descendants for which the insert command is issued: the same if-let block.
InsertTargets(e) == SelectSeq(iter_descendants(e), HasPlayer)

\* An already playing animation is stopped instead.
PlayRepeat_Toggle(active, index) ==
    IF active[index] = "Inactive" THEN Repeat(Play(active, index), index)
    ELSE [active EXCEPT ![index] = "Inactive"]

\* play without repeat
PlayRepeat_NoRepeat(active, index) == Play(active, index)

\* player.play(index).repeat()
PlayRepeat(active, index) == Repeat(Play(active, index), index)

\* The observer's body, for the event's entity e.
play_animation_when_ready(e) ==
    /\ runs' = [runs EXCEPT ![e] = @ + 1]
    /\ IF DescriptorLookup(e) # <<>> THEN
           LET animation_to_play == DescriptorLookup(e)[1]
               played == Range(PlayTargets(e))
               ins == InsertTargets(e)
           IN /\ players' = [c \in Ent |->
                                IF c \in played
                                THEN <<PlayRepeat(players[c][1], animation_to_play.index)>>
                                ELSE players[c]]
              /\ queue' = queue \o [i \in 1..Len(ins) |->
                                       InsertCmd(ins[i], animation_to_play.graph_handle)]
       ELSE UNCHANGED <<players, queue>>

\* ------------------------------------------------- the engine's scene flow

\* The scene asset is decoded: the instance has n entities to spawn (a scene
\* the world has ids left for).
SceneLoaded(r, n) ==
    /\ queue = <<>>
    /\ NewEntity + n <= MaxEnt + 1
    /\ IsRoot(r)
    /\ sceneState[r] = "loading"
    /\ sceneState' = [sceneState EXCEPT ![r] = "spawning"]
    /\ remaining' = [remaining EXCEPT ![r] = n]
    /\ UNCHANGED <<entities, parent, animToPlay, sceneRoot, observers, players,
                   graphHandle, graphs, fired, runs, queue, err>>
    /\ UNCHANGED timeVars

\* The asset cannot be decoded: nothing is ever spawned for r.
DecodeFail(r) ==
    /\ queue = <<>>
    /\ IsRoot(r)
    /\ sceneState[r] = "loading"
    /\ sceneState' = [sceneState EXCEPT ![r] = "failed"]
    /\ UNCHANGED <<entities, parent, animToPlay, sceneRoot, observers, players,
                   graphHandle, graphs, remaining, fired, runs, queue, err>>
    /\ UNCHANGED timeVars

\* One entity of r's scene instance is spawned under p, with or without an
\* AnimationPlayer.
SpawnSceneEntity(r, p, cap) ==
    /\ queue = <<>>
    /\ IsRoot(r)
    /\ sceneState[r] = "spawning"
    /\ remaining[r] > 0
    /\ NewEntity <= MaxEnt
    /\ p \in entities
    /\ (p = r \/ IsAncestor(r, p))
    /\ entities' = entities \cup {NewEntity}
    /\ parent' = [parent EXCEPT ![NewEntity] = <<p>>]
    /\ players' = [players EXCEPT ![NewEntity] =
                       IF cap THEN <<DefaultPlayer>> ELSE <<>>]
    /\ remaining' = [remaining EXCEPT ![r] = @ - 1]
    /\ UNCHANGED <<animToPlay, sceneRoot, observers, graphHandle, graphs,
                   sceneState, fired, runs, queue, err>>
    /\ UNCHANGED timeVars

\* SceneInstanceReady is triggered on r: the observers watching r run.
Trigger(r) ==
    /\ fired' = [fired EXCEPT ![r] = @ + 1]
    /\ IF r \in observers
       THEN play_animation_when_ready(r)
       ELSE UNCHANGED <<players, queue, runs>>
    /\ UNCHANGED <<entities, parent, animToPlay, sceneRoot, observers,
                   graphHandle, graphs, remaining, err>>
    /\ UNCHANGED timeVars

\* The whole instance of r is spawned: the notification fires.
SceneInstanceReady(r) ==
    /\ queue = <<>>
    /\ IsRoot(r)
    /\ sceneState[r] = "spawning"
    /\ remaining[r] = 0
    /\ sceneState' = [sceneState EXCEPT ![r] = "ready"]
    /\ Trigger(r)

\* The notification fires again on an instance that is ready.
SceneInstanceReadyAgain(r) ==
    /\ queue = <<>>
    /\ IsRoot(r)
    /\ sceneState[r] = "ready"
    /\ fired[r] < MaxFires
    /\ UNCHANGED sceneState
    /\ Trigger(r)

\* ------------------------------------------------- debug_animation_status

\* The condition of the if: elapsed > 1 s, whole seconds % 1 = 0, delta < 0.1 s.
StatusDue(el, dl) ==
    /\ el > WARMUP_MS
    /\ (el \div MS_PER_SEC) % SECOND_MODULUS = 0
    /\ dl < DELTA_THRESHOLD_MS

\* Frame deltas, ms.
Deltas == {16, 50, 100, 250}

\* One frame: Time advances by d, then the Update system runs.
Frame(d) ==
    /\ elapsed <= MaxElapsed
    /\ elapsed' = elapsed + d
    /\ delta' = d
    /\ logged' = StatusDue(elapsed', delta')
    /\ prevLog' = IF logged THEN elapsed ELSE prevLog
    /\ UNCHANGED worldVars

\* ---------------------------------------------------------- specifications

InitTime ==
    /\ elapsed = 0
    /\ delta = 0
    /\ logged = FALSE
    /\ prevLog = -1

Init ==
    /\ entities = {}
    /\ parent = [e \in Ent |-> <<>>]
    /\ animToPlay = [e \in Ent |-> <<>>]
    /\ sceneRoot = [e \in Ent |-> <<>>]
    /\ observers = {}
    /\ players = [e \in Ent |-> <<>>]
    /\ graphHandle = [e \in Ent |-> <<>>]
    /\ graphs = <<>>
    /\ sceneState = [e \in Ent |-> "none"]
    /\ remaining = [e \in Ent |-> 0]
    /\ fired = [e \in Ent |-> 0]
    /\ runs = [e \in Ent |-> 0]
    /\ queue = <<>>
    /\ err = FALSE
    /\ InitTime

Next ==
    \/ setup_mesh_and_animation
    \/ Flush
    \/ \E r \in Ent, n \in 0..MaxScene : SceneLoaded(r, n)
    \/ \E r \in Ent : DecodeFail(r)
    \/ \E r \in Ent, p \in Ent, cap \in BOOLEAN : SpawnSceneEntity(r, p, cap)
    \/ \E r \in Ent : SceneInstanceReady(r)

Spec == Init /\ [][Next]_vars

NextTime == \E d \in Deltas : Frame(d)

SpecTime == Init /\ [][NextTime]_vars

\* The worlds the handler is applied to: every forest over MaxHandlerEnt
\* entities (a parent is spawned before its children), every parentless
\* entity a scene root watched by the observer whose instance is spawned,
\* with or without an AnimationToPlay, and every other entity with or
\* without an AnimationPlayer.
HandlerEnt == 1..MaxHandlerEnt

RootRank(e, par) == Cardinality({x \in 1..e : x \in HandlerEnt /\ par[x] = <<>>})

InitHandler ==
    /\ entities = HandlerEnt
    /\ parent \in [Ent -> {<<>>} \cup {<<p>> : p \in HandlerEnt}]
    /\ \A e \in Ent : parent[e] # <<>> => (e \in HandlerEnt /\ parent[e][1] < e)
    /\ sceneRoot = [e \in Ent |->
                       IF e \in HandlerEnt /\ parent[e] = <<>>
                       THEN <<SCENE_LABEL>> ELSE <<>>]
    /\ observers = {e \in HandlerEnt : parent[e] = <<>>}
    /\ graphs = [i \in 1..Cardinality(observers) |-> from_clip(ANIMATION_LABEL)[1]]
    /\ animToPlay \in [Ent -> {<<>>} \cup
                          {<<MakeAnimationToPlay(h, from_clip(ANIMATION_LABEL)[2])>> :
                              h \in 1..Len(graphs)}]
    /\ \A e \in Ent : animToPlay[e] # <<>> =>
           (e \in observers /\ animToPlay[e][1].graph_handle = RootRank(e, parent))
    /\ players \in [Ent -> {<<>>, <<DefaultPlayer>>}]
    /\ \A e \in Ent : players[e] # <<>> => (e \in HandlerEnt /\ parent[e] # <<>>)
    /\ graphHandle = [e \in Ent |-> <<>>]
    /\ sceneState = [e \in Ent |-> IF e \in observers THEN "spawning" ELSE "none"]
    /\ remaining = [e \in Ent |-> 0]
    /\ fired = [e \in Ent |-> 0]
    /\ runs = [e \in Ent |-> 0]
    /\ queue = <<>>
    /\ err = FALSE
    /\ InitTime

NextHandler ==
    \/ Flush
    \/ \E r \in Ent : SceneInstanceReady(r)
    \/ \E r \in Ent : SceneInstanceReadyAgain(r)

SpecHandler == InitHandler /\ [][NextHandler]_vars

\* ------------------------------------------------------------------ claims

\* d plays node index of the descriptor in looping mode and carries its graph.
Bound(d, atp) ==
    /\ players[d] # <<>>
    /\ players[d][1][atp.index] = "Forever"
    /\ graphHandle[d] = <<atp.graph_handle>>

Playing(d) == players[d] # <<>> /\ \E i \in NodeIdx : players[d][1][i] # "Inactive"

Looping(d) == players[d] # <<>> /\ \E i \in NodeIdx : players[d][1][i] = "Forever"

Untouched(d) == players[d] \in {<<>>, <<DefaultPlayer>>} /\ graphHandle[d] = <<>>

PlaybackDescendants(e) == {d \in Descendants(e) : HasPlayer(d)}

\* C1: once the notification has fired for a root carrying a descriptor
\* (graph G, node i) and the commands of that run are applied, every
\* playback-capable descendant of the root plays node i in looping mode and
\* has G attached, however many there are.
C1_AllPlayersBound ==
    \A r \in Roots :
        (fired[r] >= 1 /\ animToPlay[r] # <<>> /\ queue = <<>>) =>
            \A d \in PlaybackDescendants(r) : Bound(d, animToPlay[r][1])

C1_Witness ==
    \E r \in Roots :
        /\ fired[r] >= 1
        /\ animToPlay[r] # <<>>
        /\ queue = <<>>
        /\ Cardinality(PlaybackDescendants(r)) >= 2
        /\ \A d \in PlaybackDescendants(r) : Bound(d, animToPlay[r][1])

\* C2: a notification for a root with no playback-capable descendant changes
\* no player, attaches no graph reference, queues no command and raises no
\* error.
C2_NoTargetNoOp ==
    [][\A e \in Ent :
          (fired'[e] # fired[e] /\ PlaybackDescendants(e) = {}) =>
              (players' = players /\ graphHandle' = graphHandle
               /\ queue' = queue /\ err' = err)]_vars

C2_Witness ==
    \E r \in Roots :
        /\ fired[r] >= 1
        /\ runs[r] >= 1
        /\ animToPlay[r] # <<>>
        /\ Descendants(r) # {}
        /\ PlaybackDescendants(r) = {}
        /\ \A d \in Descendants(r) : Untouched(d)
        /\ \E x \in entities : HasPlayer(x) /\ Untouched(x)
        /\ queue = <<>>
        /\ ~err

\* C3: a notification for an entity with no AnimationToPlay changes nothing
\* (no player, no graph reference, no queued command, no component) and
\* raises no error, also when the entity has playback-capable descendants.
C3_NoDescriptorNoOp ==
    [][\A e \in Ent :
          (fired'[e] # fired[e] /\ animToPlay[e] = <<>>) =>
              UNCHANGED <<entities, parent, animToPlay, sceneRoot, observers,
                          players, graphHandle, graphs, queue, err>>]_vars

C3_Witness ==
    \E e \in Roots :
        /\ fired[e] >= 1
        /\ runs[e] >= 1
        /\ animToPlay[e] = <<>>
        /\ PlaybackDescendants(e) # {}
        /\ \A d \in Descendants(e) : Untouched(d)
        /\ \E x \in Roots : animToPlay[x] # <<>>
        /\ ~err

\* C4: once the binder has run for a root and its commands are applied, no
\* later step (a re-fired notification for the root and the application of
\* its commands included) changes the player state or the graph reference of
\* any descendant of the root.
C4_Idempotent ==
    [][\A e \in Roots :
          (animToPlay[e] # <<>> /\ (runs[e] >= 2 \/ (runs[e] >= 1 /\ queue = <<>>))) =>
              \A d \in Descendants(e) :
                  players'[d] = players[d] /\ graphHandle'[d] = graphHandle[d]]_vars

C4_Witness ==
    \E e \in Roots :
        /\ runs[e] >= 2
        /\ animToPlay[e] # <<>>
        /\ queue = <<>>
        /\ PlaybackDescendants(e) # {}
        /\ \A d \in PlaybackDescendants(e) : Bound(d, animToPlay[e][1])

\* C5: a binder run for R changes the player of playback-capable descendants
\* of R only and queues inserts for those only; it changes no component of R
\* or of any other entity, and an applied insert gives an entity the graph of
\* the root it descends from, whose binder has run.
C5_Frame ==
    [][/\ \A e \in Ent :
             fired'[e] # fired[e] =>
                 /\ \A x \in Ent : x \notin PlaybackDescendants(e) => players'[x] = players[x]
                 /\ UNCHANGED <<entities, parent, animToPlay, sceneRoot, observers,
                                graphHandle, graphs>>
                 /\ \A i \in 1..Len(queue') :
                        i > Len(queue) =>
                            /\ queue'[i].op = "insert"
                            /\ queue'[i].entity \in PlaybackDescendants(e)
       /\ \A x \in Ent :
             graphHandle'[x] # graphHandle[x] =>
                 \E r \in Roots :
                     /\ runs[r] >= 1
                     /\ animToPlay[r] # <<>>
                     /\ animToPlay'[r] = animToPlay[r]
                     /\ x \in PlaybackDescendants(r)
                     /\ graphHandle'[x] = <<animToPlay[r][1].graph_handle>>]_vars

C5_Witness ==
    \E r \in Roots, a, b \in entities, r2 \in Roots, c \in entities :
        /\ r # r2
        /\ fired[r] = 1
        /\ fired[r2] = 0
        /\ queue = <<>>
        /\ a \in Descendants(r) /\ ~HasPlayer(a) /\ Untouched(a)
        /\ b \in Descendants(r) /\ Bound(b, animToPlay[r][1])
        /\ c \in Descendants(r2) /\ HasPlayer(c) /\ Untouched(c)
        /\ animToPlay[r][1].graph_handle # animToPlay[r2][1].graph_handle

\* C6: while the notification of a root has not fired (for ever, when the
\* asset fails to decode), the root keeps its descriptor, the binder has not
\* run for it, no descendant of it plays, no entity holds its graph, and no
\* error has been raised.
C6_PendingForever ==
    /\ ~err
    /\ \A r \in Roots :
          fired[r] = 0 =>
              /\ Len(animToPlay[r]) = 1
              /\ runs[r] = 0
              /\ \A d \in Descendants(r) : Untouched(d)
              /\ \A x \in entities :
                     graphHandle[x] # <<animToPlay[r][1].graph_handle>>

C6_Witness ==
    \E r \in Roots, r2 \in Roots :
        /\ sceneState[r] = "failed"
        /\ fired[r] = 0
        /\ Len(animToPlay[r]) = 1
        /\ fired[r2] = 1
        /\ queue = <<>>
        /\ \E d \in Descendants(r2) : Bound(d, animToPlay[r2][1])

\* The descriptor d refers to a registered graph of exactly one node, which
\* wraps the requested clip and which d.index identifies.
DescriptorOk(d) ==
    /\ d.graph_handle \in 1..Len(graphs)
    /\ Len(graphs[d.graph_handle].nodes) = 1
    /\ d.index \in 1..Len(graphs[d.graph_handle].nodes)
    /\ graphs[d.graph_handle].nodes[d.index].clip = ANIMATION_LABEL

\* C7: every root is spawned with exactly one descriptor, the scene
\* reference and (by the command that follows the spawn) the observer; from
\* the moment the spawn is queued the descriptor refers to a registered
\* graph of exactly one node wrapping the requested clip, identified by the
\* descriptor's index.
C7_RootWellFormed ==
    /\ \A r \in Roots :
          /\ Len(animToPlay[r]) = 1
          /\ DescriptorOk(animToPlay[r][1])
          /\ sceneRoot[r] = <<SCENE_LABEL>>
          /\ r \in observers
    /\ \A i \in 1..Len(queue) :
          queue[i].op = "spawn" =>
              /\ Len(queue[i].descriptor) = 1
              /\ DescriptorOk(queue[i].descriptor[1])
              /\ queue[i].scene = <<SCENE_LABEL>>
              /\ i < Len(queue)
              /\ queue[i + 1] = ObserveCmd(queue[i].entity)

C7_Witness ==
    /\ Cardinality(Roots) = 1
    /\ \E i \in 1..Len(queue) : queue[i].op = "spawn"
    /\ \A r \in Roots : r \in observers /\ DescriptorOk(animToPlay[r][1])

\* C8: with the notification emitted once per root and after the whole
\* subtree is spawned, the binder has run for a root exactly as often as the
\* notification has fired, at most once; when it has run nothing of the
\* subtree is left to spawn; and before the notification no descendant plays
\* or has a graph reference.
C8_OnceAfterReady ==
    \A r \in Roots :
        /\ fired[r] <= 1
        /\ runs[r] = fired[r]
        /\ runs[r] >= 1 => (remaining[r] = 0 /\ sceneState[r] = "ready")
        /\ fired[r] = 0 =>
               \A d \in Descendants(r) : ~Playing(d) /\ graphHandle[d] = <<>>

C8_Witness ==
    \E r \in Roots, r2 \in Roots :
        /\ runs[r] = 1
        /\ fired[r] = 1
        /\ queue = <<>>
        /\ \E d \in Descendants(r) : Bound(d, animToPlay[r][1])
        /\ fired[r2] = 0
        /\ remaining[r2] > 0
        /\ \E d \in Descendants(r2) : HasPlayer(d) /\ ~Playing(d)

\* C9: a log emission happens only after the 1 s warm-up and on a frame
\* whose delta is below 0.1 s, and never in the same elapsed whole second as
\* the emission before it.
C9_OncePerSecond ==
    logged =>
        /\ elapsed > WARMUP_MS
        /\ delta < DELTA_THRESHOLD_MS
        /\ (prevLog = -1 \/ prevLog \div MS_PER_SEC # elapsed \div MS_PER_SEC)

\* C10: an entity never has a graph reference attached without its player
\* looping; a looping player with no graph reference yet has the insert of
\* its root's graph queued; and with the queue applied every looping player
\* has the graph of the root it descends from.
C10_PlayThenDeferredInsert ==
    /\ \A d \in entities : graphHandle[d] # <<>> => Looping(d)
    /\ \A d \in entities :
          Looping(d) =>
              \E r \in Roots :
                  /\ d \in Descendants(r)
                  /\ animToPlay[r] # <<>>
                  /\ IF queue = <<>>
                     THEN graphHandle[d] = <<animToPlay[r][1].graph_handle>>
                     ELSE \/ graphHandle[d] = <<animToPlay[r][1].graph_handle>>
                          \/ /\ graphHandle[d] = <<>>
                             /\ \E i \in 1..Len(queue) :
                                    queue[i] = InsertCmd(d, animToPlay[r][1].graph_handle)

C10_Witness ==
    \E d \in entities :
        /\ Looping(d)
        /\ graphHandle[d] = <<>>
        /\ queue # <<>>

====
